---- MODULE Spec2Model ----
(***************************************************************************)
(* A model of the in-memory key-value store of db/mem_db.go: the map       *)
(* guarded by one mutex, the point operations, the batch committed under   *)
(* the store's lock, and the iterator with its key snapshot.               *)
(*                                                                         *)
(* A Go []byte is a record [isNil, bz]: a nil slice and an empty non-nil   *)
(* slice are different values with the same content.  A Go string (a map   *)
(* key) is a sequence of bytes.                                            *)
(***************************************************************************)
EXTENDS Integers, Sequences, FiniteSets, TLC

VARIABLES
    db,         \* MemDB.db: map[string][]byte, a function on the keys present
    mtx,        \* MemDB.mtx: Free, or the thread that holds it
    pc,         \* per thread: "idle", or the operation it runs holding mtx
    arg,        \* per thread: the arguments of the operation in progress
    ret,        \* what the most recently completed call returned
    batch,      \* per thread: its memBatch (live, ops)
    itr,        \* per thread: its memDBIterator (live, dbref, cur, keys, start, end)
    lastMut,    \* history: per key, the most recent applied mutation
    preStore,   \* history: per thread, the store when its Write took the lock
    yielded     \* history: per thread, the keys its traversal has passed

vars == <<db, mtx, pc, arg, ret, batch, itr, lastMut, preStore, yielded>>

--------------------------------------------------------------------------
(* Bounds *)

NumThreads == 2
MaxBatch == 3

Threads == 1..NumThreads
Free == 0

--------------------------------------------------------------------------
(* Byte slices and strings *)

NilBytes == [isNil |-> TRUE, bz |-> <<>>]
B(s) == [isNil |-> FALSE, bz |-> s]

\* string(key): the conversion keeps the content; nil and empty both give ""
KeyString(key) == key.bz

\* []byte(str): a non-nil slice with the string's content
ToBytes(str) == B(str)

nonNilBytes(bz) == IF bz.isNil THEN B(<<>>) ELSE bz

\* bytes.Compare / the string order of sort.Strings: byte-lexicographic,
\* a proper prefix sorts first
RECURSIVE StrLess(_, _)
StrLess(a, b) ==
    IF b = <<>> THEN FALSE
    ELSE IF a = <<>> THEN TRUE
    ELSE IF Head(a) < Head(b) THEN TRUE
    ELSE IF Head(a) > Head(b) THEN FALSE
    ELSE StrLess(Tail(a), Tail(b))

StrLeq(a, b) == a = b \/ StrLess(a, b)

\* IsKeyInDomain(key, start, end, false): key in [start, end), a nil bound
\* is unbounded
IsKeyInDomain(key, start, end) ==
    /\ (start.isNil \/ StrLeq(start.bz, key.bz))
    /\ (end.isNil \/ StrLess(key.bz, end.bz))

--------------------------------------------------------------------------
(* The map *)

EmptyMap == [k \in {} |-> NilBytes]

\* db.db[string(key)]: the zero value (a nil slice) for a missing key
MapLookup(m, str) == IF str \in DOMAIN m THEN m[str] ELSE NilBytes

MapHas(m, str) == str \in DOMAIN m

MapStore(m, str, value) ==
    [k \in (DOMAIN m) \cup {str} |-> IF k = str THEN value ELSE m[k]]

MapDelete(m, str) == [k \in (DOMAIN m) \ {str} |-> m[k]]

\* history: the most recent mutation applied to a key, with the value as the
\* caller passed it
MutNone == [op |-> "none", value |-> NilBytes]
MutSet(value) == [op |-> "set", value |-> value]
MutDelete == [op |-> "delete", value |-> NilBytes]

MutIn(hist, str) == IF str \in DOMAIN hist THEN hist[str] ELSE MutNone

LastMutOf(str) == MutIn(lastMut, str)

--------------------------------------------------------------------------
(* Return values *)

RetNone == [op |-> "none", kind |-> "none", bz |-> NilBytes, bz2 |-> NilBytes,
            ok |-> FALSE, n |-> <<>>]
\* a call that returns nothing
RetVoid == [RetNone EXCEPT !.kind = "void"]
RetBytes(op, b) == [RetNone EXCEPT !.op = op, !.kind = "bytes", !.bz = b]
RetBool(op, x) == [RetNone EXCEPT !.op = op, !.kind = "bool", !.ok = x]
RetStats(op, size) == [RetNone EXCEPT !.op = op, !.kind = "stats", !.n = size]
RetPanic == [RetNone EXCEPT !.kind = "panic"]
\* the two results of Domain
RetDomain(start, end) ==
    [RetNone EXCEPT !.op = "Domain", !.kind = "pair", !.bz = start, !.bz2 = end]
\* Close of the store has returned (nothing)
RetClose == [RetNone EXCEPT !.op = "Close", !.kind = "void"]
\* a synchronous variant has returned (nothing)
RetSync(op) == [RetNone EXCEPT !.op = op, !.kind = "void"]

\* fmt.Sprintf("%d", n) for n >= 0: the decimal digits, most significant first
RECURSIVE Itoa(_)
Itoa(n) == IF n < 10 THEN <<n>> ELSE Append(Itoa(n \div 10), n % 10)

NoArg == [key |-> NilBytes, value |-> NilBytes, i |-> 0]

--------------------------------------------------------------------------
(* The lock *)

Lock(t) == mtx = Free /\ mtx' = t

Unlock == mtx' = Free

\* the operation has returned: its thread is idle again
Return(t, r) ==
    /\ pc' = [pc EXCEPT ![t] = "idle"]
    /\ arg' = [arg EXCEPT ![t] = NoArg]
    /\ ret' = r

\* a call of operation op by an idle thread, up to the point where it holds mtx
Enter(t, op, a) ==
    /\ pc[t] = "idle"
    /\ pc' = [pc EXCEPT ![t] = op]
    /\ arg' = [arg EXCEPT ![t] = a]

\* a call that may have to wait for the lock: the thread is at db.mtx.Lock()
Waiting == [Get |-> "Get.wait", Has |-> "Has.wait", Set |-> "Set.wait",
            Delete |-> "Delete.wait", NewBatch |-> "NewBatch.wait",
            Write |-> "Write.wait", Iterator |-> "Iterator.wait",
            Value |-> "Value.wait"]

Call(t, op, a) ==
    /\ Enter(t, Waiting[op], a)
    /\ UNCHANGED <<db, mtx, ret, batch, itr, lastMut, preStore, yielded>>

\* db.mtx.Lock() returns: the thread holds the lock and goes on
Acquire(t) ==
    /\ \E op \in DOMAIN Waiting :
         /\ pc[t] = Waiting[op]
         /\ pc' = [pc EXCEPT ![t] = op]
         /\ preStore' = IF op = "Write" THEN [preStore EXCEPT ![t] = db]
                        ELSE preStore
    /\ Lock(t)
    /\ UNCHANGED <<db, arg, ret, batch, itr, lastMut, yielded>>

--------------------------------------------------------------------------
(* Point operations *)

MemDBGet(m, key) == MapLookup(m, KeyString(nonNilBytes(key)))

MemDBHas(m, key) == MapHas(m, KeyString(nonNilBytes(key)))

\* mutant: the value is stored as passed, without value = nonNilBytes(value)
SetNoLock_RawValue(m, key, value) ==
    MapStore(m, KeyString(nonNilBytes(key)), value)

\* mutant: an entry that exists is kept (insert-if-absent)
SetNoLock_KeepExisting(m, key, value) ==
    IF MapHas(m, KeyString(nonNilBytes(key))) THEN m
    ELSE MapStore(m, KeyString(nonNilBytes(key)), nonNilBytes(value))

SetNoLock(m, key, value) ==
    MapStore(m, KeyString(nonNilBytes(key)), nonNilBytes(value))

\* mutant: the entry is overwritten with nil instead of removed
DeleteNoLock_StoreNil(m, key) ==
    MapStore(m, KeyString(nonNilBytes(key)), NilBytes)

\* mutant: Delete of a nil key returns at once
DeleteNoLock_SkipNilKey(m, key) ==
    IF key.isNil THEN m ELSE MapDelete(m, KeyString(key))

DeleteNoLock(m, key) == MapDelete(m, KeyString(nonNilBytes(key)))

\* mutant: Get reads the map without taking the lock
GetLock_NoMutex(t, key) ==
    /\ Enter(t, "Get", [NoArg EXCEPT !.key = key])
    /\ UNCHANGED <<db, mtx, ret, batch, itr, lastMut, preStore, yielded>>

GetLock(t, key) ==
    /\ Enter(t, "Get", [NoArg EXCEPT !.key = key])
    /\ Lock(t)
    /\ UNCHANGED <<db, ret, batch, itr, lastMut, preStore, yielded>>

GetBody(t) ==
    /\ pc[t] = "Get"
    /\ Return(t, RetBytes("Get", MemDBGet(db, arg[t].key)))
    /\ Unlock
    /\ UNCHANGED <<db, batch, itr, lastMut, preStore, yielded>>

HasLock(t, key) ==
    /\ Enter(t, "Has", [NoArg EXCEPT !.key = key])
    /\ Lock(t)
    /\ UNCHANGED <<db, ret, batch, itr, lastMut, preStore, yielded>>

\* mutant: Has returns without the deferred Unlock
HasBody_NoUnlock(t) ==
    /\ pc[t] = "Has"
    /\ Return(t, RetBool("Has", MemDBHas(db, arg[t].key)))
    /\ UNCHANGED <<db, mtx, batch, itr, lastMut, preStore, yielded>>

HasBody(t) ==
    /\ pc[t] = "Has"
    /\ Return(t, RetBool("Has", MemDBHas(db, arg[t].key)))
    /\ Unlock
    /\ UNCHANGED <<db, batch, itr, lastMut, preStore, yielded>>

\* mutant: Set calls SetNoLock without taking the lock
SetLock_NoMutex(t, key, value) ==
    /\ Enter(t, "Set", [NoArg EXCEPT !.key = key, !.value = value])
    /\ UNCHANGED <<db, mtx, ret, batch, itr, lastMut, preStore, yielded>>

SetLock(t, key, value) ==
    /\ Enter(t, "Set", [NoArg EXCEPT !.key = key, !.value = value])
    /\ Lock(t)
    /\ UNCHANGED <<db, ret, batch, itr, lastMut, preStore, yielded>>

SetBody(t) ==
    /\ pc[t] = "Set"
    /\ db' = SetNoLock(db, arg[t].key, arg[t].value)
    /\ lastMut' = MapStore(lastMut, KeyString(arg[t].key), MutSet(arg[t].value))
    /\ Return(t, RetVoid)
    /\ Unlock
    /\ UNCHANGED <<batch, itr, preStore, yielded>>

DeleteLock(t, key) ==
    /\ Enter(t, "Delete", [NoArg EXCEPT !.key = key])
    /\ Lock(t)
    /\ UNCHANGED <<db, ret, batch, itr, lastMut, preStore, yielded>>

DeleteBody(t) ==
    /\ pc[t] = "Delete"
    /\ db' = DeleteNoLock(db, arg[t].key)
    /\ lastMut' = MapStore(lastMut, KeyString(arg[t].key), MutDelete)
    /\ Return(t, RetVoid)
    /\ Unlock
    /\ UNCHANGED <<batch, itr, preStore, yielded>>

SetSyncLock(t, key, value) ==
    /\ Enter(t, "SetSync", [NoArg EXCEPT !.key = key, !.value = value])
    /\ Lock(t)
    /\ UNCHANGED <<db, ret, batch, itr, lastMut, preStore, yielded>>

\* mutant: SetSync stores the value as passed
SetSyncBody_RawValue(t) ==
    /\ pc[t] = "SetSync"
    /\ db' = SetNoLock_RawValue(db, arg[t].key, arg[t].value)
    /\ lastMut' = MapStore(lastMut, KeyString(arg[t].key), MutSet(arg[t].value))
    /\ Return(t, RetSync("SetSync"))
    /\ Unlock
    /\ UNCHANGED <<batch, itr, preStore, yielded>>

SetSyncBody(t) ==
    /\ pc[t] = "SetSync"
    /\ db' = SetNoLock(db, arg[t].key, arg[t].value)
    /\ lastMut' = MapStore(lastMut, KeyString(arg[t].key), MutSet(arg[t].value))
    /\ Return(t, RetSync("SetSync"))
    /\ Unlock
    /\ UNCHANGED <<batch, itr, preStore, yielded>>

DeleteSyncLock(t, key) ==
    /\ Enter(t, "DeleteSync", [NoArg EXCEPT !.key = key])
    /\ Lock(t)
    /\ UNCHANGED <<db, ret, batch, itr, lastMut, preStore, yielded>>

DeleteSyncBody(t) ==
    /\ pc[t] = "DeleteSync"
    /\ db' = DeleteNoLock(db, arg[t].key)
    /\ lastMut' = MapStore(lastMut, KeyString(arg[t].key), MutDelete)
    /\ Return(t, RetSync("DeleteSync"))
    /\ Unlock
    /\ UNCHANGED <<batch, itr, preStore, yielded>>

\* mutant: Close releases the map
Close_DropsMap(t) ==
    /\ pc[t] = "idle"
    /\ db' = EmptyMap
    /\ ret' = RetClose
    /\ UNCHANGED <<mtx, pc, arg, batch, itr, lastMut, preStore, yielded>>

\* Close has an empty body and takes no lock
Close(t) ==
    /\ pc[t] = "idle"
    /\ ret' = RetClose
    /\ UNCHANGED <<db, mtx, pc, arg, batch, itr, lastMut, preStore, yielded>>

StatsLock(t) ==
    /\ Enter(t, "Stats", NoArg)
    /\ Lock(t)
    /\ UNCHANGED <<db, ret, batch, itr, lastMut, preStore, yielded>>

StatsBody(t) ==
    /\ pc[t] = "Stats"
    /\ Return(t, RetStats("Stats", Itoa(Cardinality(DOMAIN db))))
    /\ Unlock
    /\ UNCHANGED <<db, batch, itr, lastMut, preStore, yielded>>

--------------------------------------------------------------------------
(* Batch: a pending list of operations, committed under the store's lock *)

NoBatch == [live |-> FALSE, ops |-> <<>>]

OpSet(key, value) == [opType |-> "set", key |-> key, value |-> value]
OpDelete(key) == [opType |-> "delete", key |-> key, value |-> NilBytes]

\* &memBatch{db, nil}
NewBatchValue == [live |-> TRUE, ops |-> <<>>]

NewBatchLock(t) ==
    /\ ~batch[t].live
    /\ Enter(t, "NewBatch", NoArg)
    /\ Lock(t)
    /\ UNCHANGED <<db, ret, batch, itr, lastMut, preStore, yielded>>

\* mutant: the batch is bound to a map made anew, as in NewMemDB
NewBatchBody_FreshMap(t) ==
    /\ pc[t] = "NewBatch"
    /\ db' = EmptyMap
    /\ batch' = [batch EXCEPT ![t] = NewBatchValue]
    /\ Return(t, RetVoid)
    /\ Unlock
    /\ UNCHANGED <<itr, lastMut, preStore, yielded>>

NewBatchBody(t) ==
    /\ pc[t] = "NewBatch"
    /\ batch' = [batch EXCEPT ![t] = NewBatchValue]
    /\ Return(t, RetVoid)
    /\ Unlock
    /\ UNCHANGED <<db, itr, lastMut, preStore, yielded>>

BatchAppend(t, op) ==
    /\ pc[t] = "idle"
    /\ batch[t].live
    /\ Len(batch[t].ops) < MaxBatch
    /\ batch' = [batch EXCEPT ![t].ops = Append(@, op)]
    /\ ret' = RetVoid
    /\ UNCHANGED <<db, mtx, pc, arg, itr, lastMut, preStore, yielded>>

BatchSet(t, key, value) == BatchAppend(t, OpSet(key, value))

BatchDelete(t, key) == BatchAppend(t, OpDelete(key))

\* one pending operation applied through the no-lock entry points
ApplyOp(m, op) ==
    IF op.opType = "set" THEN SetNoLock(m, op.key, op.value)
    ELSE DeleteNoLock(m, op.key)

WriteLock(t) ==
    /\ batch[t].live
    /\ Enter(t, "Write", [NoArg EXCEPT !.i = 1])
    /\ Lock(t)
    /\ preStore' = [preStore EXCEPT ![t] = db]
    /\ UNCHANGED <<db, ret, batch, itr, lastMut, yielded>>

WriteApply(t) ==
    /\ pc[t] = "Write"
    /\ arg[t].i <= Len(batch[t].ops)
    /\ LET op == batch[t].ops[arg[t].i]
       IN /\ db' = ApplyOp(db, op)
          /\ lastMut' = MapStore(lastMut, KeyString(op.key),
                                 IF op.opType = "set" THEN MutSet(op.value)
                                 ELSE MutDelete)
    /\ arg' = [arg EXCEPT ![t].i = @ + 1]
    /\ UNCHANGED <<mtx, pc, ret, batch, itr, preStore, yielded>>

WriteBody(t) ==
    /\ pc[t] = "Write"
    /\ arg[t].i > Len(batch[t].ops)
    /\ batch' = [batch EXCEPT ![t] = NoBatch]
    /\ preStore' = [preStore EXCEPT ![t] = EmptyMap]
    /\ Return(t, RetVoid)
    /\ Unlock
    /\ UNCHANGED <<db, itr, lastMut, yielded>>

WriteSyncLock(t) ==
    /\ batch[t].live
    /\ Enter(t, "WriteSync", [NoArg EXCEPT !.i = 1])
    /\ Lock(t)
    /\ preStore' = [preStore EXCEPT ![t] = db]
    /\ UNCHANGED <<db, ret, batch, itr, lastMut, yielded>>

WriteSyncApply(t) ==
    /\ pc[t] = "WriteSync"
    /\ arg[t].i <= Len(batch[t].ops)
    /\ LET op == batch[t].ops[arg[t].i]
       IN /\ db' = ApplyOp(db, op)
          /\ lastMut' = MapStore(lastMut, KeyString(op.key),
                                 IF op.opType = "set" THEN MutSet(op.value)
                                 ELSE MutDelete)
    /\ arg' = [arg EXCEPT ![t].i = @ + 1]
    /\ UNCHANGED <<mtx, pc, ret, batch, itr, preStore, yielded>>

WriteSyncBody(t) ==
    /\ pc[t] = "WriteSync"
    /\ arg[t].i > Len(batch[t].ops)
    /\ batch' = [batch EXCEPT ![t] = NoBatch]
    /\ preStore' = [preStore EXCEPT ![t] = EmptyMap]
    /\ Return(t, RetSync("WriteSync"))
    /\ Unlock
    /\ UNCHANGED <<db, itr, lastMut, yielded>>

--------------------------------------------------------------------------
(* Iterator *)

NoItr == [live |-> FALSE, dbref |-> "nil", cur |-> 0, keys |-> <<>>,
          start |-> NilBytes, end |-> NilBytes, reverse |-> FALSE]

\* the orders in which ranging over a map can visit its keys
RangeOrders(m) ==
    LET n == Cardinality(DOMAIN m)
    IN {o \in [1..n -> DOMAIN m] : \A i, j \in 1..n : i # j => o[i] # o[j]}

RECURSIVE FilterInDomain(_, _, _)
FilterInDomain(order, start, end) ==
    IF order = <<>> THEN <<>>
    ELSE LET rest == FilterInDomain(Tail(order), start, end)
         IN IF IsKeyInDomain(ToBytes(Head(order)), start, end)
            THEN <<Head(order)>> \o rest
            ELSE rest

RECURSIVE InsertSorted(_, _)
InsertSorted(sorted, k) ==
    IF sorted = <<>> THEN <<k>>
    ELSE IF StrLess(k, Head(sorted)) THEN <<k>> \o sorted
    ELSE <<Head(sorted)>> \o InsertSorted(Tail(sorted), k)

\* sort.Strings
RECURSIVE SortStrings(_)
SortStrings(keys) ==
    IF keys = <<>> THEN <<>>
    ELSE InsertSorted(SortStrings(Tail(keys)), Head(keys))

\* for i := 0; i < nkeys/2; i++ { keys[i] = keys[nkeys-i-1] }
RECURSIVE ReverseLoop(_, _)
ReverseLoop(keys, i) ==
    LET nkeys == Len(keys)
    IN IF i < nkeys \div 2
       THEN ReverseLoop([keys EXCEPT ![i + 1] = keys[nkeys - i]], i + 1)
       ELSE keys

\* mutant: the keys stay in the order the map range produced them
getSortedKeys_NoSort(m, start, end, reverse, order) ==
    LET keys == FilterInDomain(order, start, end)
    IN IF reverse THEN ReverseLoop(keys, 0) ELSE keys

getSortedKeys(m, start, end, reverse, order) ==
    LET keys == SortStrings(FilterInDomain(order, start, end))
    IN IF reverse THEN ReverseLoop(keys, 0) ELSE keys

newMemDBIterator(keys, start, end, reverse) ==
    [live |-> TRUE, dbref |-> "db", cur |-> 0, keys |-> keys,
     start |-> start, end |-> end, reverse |-> reverse]

Valid(it) == 0 <= it.cur /\ it.cur < Len(it.keys)

\* []byte(itr.keys[itr.cur])
KeyAt(it) == ToBytes(it.keys[it.cur + 1])

IteratorLock(t, start, end) ==
    /\ itr[t].dbref = "nil"
    /\ Enter(t, "Iterator", [NoArg EXCEPT !.key = start, !.value = end])
    /\ Lock(t)
    /\ UNCHANGED <<db, ret, batch, itr, lastMut, preStore, yielded>>

\* mutant: Iterator returns without the deferred Unlock
IteratorBody_NoUnlock(t) ==
    /\ pc[t] = "Iterator"
    /\ \E order \in RangeOrders(db) :
         itr' = [itr EXCEPT ![t] = newMemDBIterator(
                   getSortedKeys(db, arg[t].key, arg[t].value, FALSE, order),
                   arg[t].key, arg[t].value, FALSE)]
    /\ yielded' = [yielded EXCEPT ![t] = <<>>]
    /\ Return(t, RetVoid)
    /\ UNCHANGED <<db, mtx, batch, lastMut, preStore>>

IteratorBody(t) ==
    /\ pc[t] = "Iterator"
    /\ \E order \in RangeOrders(db) :
         itr' = [itr EXCEPT ![t] = newMemDBIterator(
                   getSortedKeys(db, arg[t].key, arg[t].value, FALSE, order),
                   arg[t].key, arg[t].value, FALSE)]
    /\ yielded' = [yielded EXCEPT ![t] = <<>>]
    /\ Return(t, RetVoid)
    /\ Unlock
    /\ UNCHANGED <<db, batch, lastMut, preStore>>

ReverseIteratorLock(t, start, end) ==
    /\ itr[t].dbref = "nil"
    /\ Enter(t, "ReverseIterator", [NoArg EXCEPT !.key = start, !.value = end])
    /\ Lock(t)
    /\ UNCHANGED <<db, ret, batch, itr, lastMut, preStore, yielded>>

\* mutant: the iterator is given the bounds in the order getSortedKeys got them
ReverseIteratorBody_SwappedDomain(t) ==
    /\ pc[t] = "ReverseIterator"
    /\ \E order \in RangeOrders(db) :
         itr' = [itr EXCEPT ![t] = newMemDBIterator(
                   getSortedKeys(db, arg[t].value, arg[t].key, TRUE, order),
                   arg[t].value, arg[t].key, TRUE)]
    /\ yielded' = [yielded EXCEPT ![t] = <<>>]
    /\ Return(t, RetVoid)
    /\ Unlock
    /\ UNCHANGED <<db, batch, lastMut, preStore>>

ReverseIteratorBody(t) ==
    /\ pc[t] = "ReverseIterator"
    /\ \E order \in RangeOrders(db) :
         itr' = [itr EXCEPT ![t] = newMemDBIterator(
                   getSortedKeys(db, arg[t].value, arg[t].key, TRUE, order),
                   arg[t].key, arg[t].value, TRUE)]
    /\ yielded' = [yielded EXCEPT ![t] = <<>>]
    /\ Return(t, RetVoid)
    /\ Unlock
    /\ UNCHANGED <<db, batch, lastMut, preStore>>

ItrDomain(t) ==
    /\ pc[t] = "idle"
    /\ itr[t].live
    /\ ret' = RetDomain(itr[t].start, itr[t].end)
    /\ UNCHANGED <<db, mtx, pc, arg, batch, itr, lastMut, preStore, yielded>>

ItrValid(t) ==
    /\ pc[t] = "idle"
    /\ itr[t].live
    /\ ret' = RetBool("Valid", Valid(itr[t]))
    /\ UNCHANGED <<db, mtx, pc, arg, batch, itr, lastMut, preStore, yielded>>

\* a call that fails assertIsValid
ItrPanic(t) ==
    /\ pc[t] = "idle"
    /\ itr[t].live
    /\ ~Valid(itr[t])
    /\ ret' = RetPanic
    /\ UNCHANGED <<db, mtx, pc, arg, batch, itr, lastMut, preStore, yielded>>

\* mutant: Next reads the keys of the live map again
ItrNext_LiveKeys(t) ==
    /\ pc[t] = "idle"
    /\ itr[t].live
    /\ Valid(itr[t])
    /\ \E order \in RangeOrders(db) :
         itr' = [itr EXCEPT ![t].cur = @ + 1,
                            ![t].keys = getSortedKeys(db, itr[t].start, itr[t].end,
                                                      FALSE, order)]
    /\ yielded' = [yielded EXCEPT ![t] = Append(@, KeyAt(itr[t]))]
    /\ ret' = RetVoid
    /\ UNCHANGED <<db, mtx, pc, arg, batch, lastMut, preStore>>

\* mutant: the cursor goes back to the first key after the last
ItrNext_Wraps(t) ==
    /\ pc[t] = "idle"
    /\ itr[t].live
    /\ Valid(itr[t])
    /\ itr' = [itr EXCEPT ![t].cur = (@ + 1) % Len(itr[t].keys)]
    /\ yielded' = [yielded EXCEPT ![t] = Append(@, KeyAt(itr[t]))]
    /\ ret' = RetVoid
    /\ UNCHANGED <<db, mtx, pc, arg, batch, lastMut, preStore>>

ItrNext(t) ==
    /\ pc[t] = "idle"
    /\ itr[t].live
    /\ Valid(itr[t])
    /\ itr' = [itr EXCEPT ![t].cur = @ + 1]
    /\ yielded' = [yielded EXCEPT ![t] = Append(@, KeyAt(itr[t]))]
    /\ ret' = RetVoid
    /\ UNCHANGED <<db, mtx, pc, arg, batch, lastMut, preStore>>

ItrKey(t) ==
    /\ pc[t] = "idle"
    /\ itr[t].live
    /\ Valid(itr[t])
    /\ ret' = RetBytes("Key", KeyAt(itr[t]))
    /\ UNCHANGED <<db, mtx, pc, arg, batch, itr, lastMut, preStore, yielded>>

\* Value up to the point where its Get holds mtx
ValueLock(t) ==
    /\ itr[t].live
    /\ Valid(itr[t])
    /\ Enter(t, "Value", [NoArg EXCEPT !.key = KeyAt(itr[t])])
    /\ Lock(t)
    /\ UNCHANGED <<db, ret, batch, itr, lastMut, preStore, yielded>>

\* mutant: the value read is normalized like a value to be stored
ValueBody_NonNil(t) ==
    /\ pc[t] = "Value"
    /\ Return(t, RetBytes("Value", nonNilBytes(MemDBGet(db, arg[t].key))))
    /\ Unlock
    /\ UNCHANGED <<db, batch, itr, lastMut, preStore, yielded>>

ValueBody(t) ==
    /\ pc[t] = "Value"
    /\ Return(t, RetBytes("Value", MemDBGet(db, arg[t].key)))
    /\ Unlock
    /\ UNCHANGED <<db, batch, itr, lastMut, preStore, yielded>>

\* mutant: Close drops the store reference and keeps the keys
ItrClose_KeepKeys(t) ==
    /\ pc[t] = "idle"
    /\ itr[t].live
    /\ itr' = [itr EXCEPT ![t].dbref = "nil"]
    /\ yielded' = [yielded EXCEPT ![t] = <<>>]
    /\ ret' = RetVoid
    /\ UNCHANGED <<db, mtx, pc, arg, batch, lastMut, preStore>>

ItrClose(t) ==
    /\ pc[t] = "idle"
    /\ itr[t].live
    /\ itr' = [itr EXCEPT ![t].keys = <<>>, ![t].dbref = "nil"]
    /\ yielded' = [yielded EXCEPT ![t] = <<>>]
    /\ ret' = RetVoid
    /\ UNCHANGED <<db, mtx, pc, arg, batch, lastMut, preStore>>

--------------------------------------------------------------------------
(* Workloads: what the threads of a specification call, and with what *)

Mutators(t, keys, values) ==
    \/ \E key \in keys, value \in values : SetLock(t, key, value)
    \/ SetBody(t)
    \/ \E key \in keys : DeleteLock(t, key)
    \/ DeleteBody(t)

Observers(t, keys) ==
    \/ \E key \in keys : GetLock(t, key)
    \/ GetBody(t)
    \/ \E key \in keys : HasLock(t, key)
    \/ HasBody(t)

Batching(t, keys, values) ==
    \/ NewBatchLock(t)
    \/ NewBatchBody(t)
    \/ \E key \in keys, value \in values : BatchSet(t, key, value)
    \/ \E key \in keys : BatchDelete(t, key)
    \/ WriteLock(t)
    \/ WriteApply(t)
    \/ WriteBody(t)

SyncMutators(t, keys, values) ==
    \/ \E key \in keys, value \in values : SetSyncLock(t, key, value)
    \/ SetSyncBody(t)
    \/ \E key \in keys : DeleteSyncLock(t, key)
    \/ DeleteSyncBody(t)

SyncCommitting(t) ==
    \/ WriteSyncLock(t)
    \/ WriteSyncApply(t)
    \/ WriteSyncBody(t)

Constructing(t, bounds) ==
    \/ \E start \in bounds, end \in bounds : IteratorLock(t, start, end)
    \/ IteratorBody(t)
    \/ \E start \in bounds, end \in bounds : ReverseIteratorLock(t, start, end)
    \/ ReverseIteratorBody(t)

Traversing(t) ==
    \/ ItrValid(t)
    \/ ItrPanic(t)
    \/ ItrNext(t)
    \/ ItrKey(t)
    \/ ValueLock(t)
    \/ ValueBody(t)
    \/ ItrClose(t)

InitWith(store) ==
    /\ db = store
    /\ mtx = Free
    /\ pc = [t \in Threads |-> "idle"]
    /\ arg = [t \in Threads |-> NoArg]
    /\ ret = RetNone
    /\ batch = [t \in Threads |-> NoBatch]
    /\ itr = [t \in Threads |-> NoItr]
    /\ lastMut = [k \in DOMAIN store |-> MutSet(store[k])]
    /\ preStore = [t \in Threads |-> EmptyMap]
    /\ yielded = [t \in Threads |-> <<>>]

\* NewMemDB(): an empty map
Init == InitWith(EmptyMap)

--------------------------------------------------------------------------
(* Spec: thread 1 writes single keys and commits batches, the other       *)
(* threads read                                                           *)

KeyArgs == {NilBytes, B(<<1>>)}
ValueArgs == {NilBytes, B(<<1>>)}

Next ==
    \E t \in Threads :
        \/ t = 1 /\ Mutators(t, KeyArgs, ValueArgs)
        \/ t = 1 /\ Batching(t, KeyArgs, ValueArgs)
        \/ t # 1 /\ Observers(t, KeyArgs)

Spec == Init /\ [][Next]_vars

--------------------------------------------------------------------------
(* SpecAtomic: thread 1 commits batches while the other threads observe   *)
(* the store with Get, Has, Stats and the construction of iterators       *)

BatchValueArgs == {B(<<1>>)}
UnboundedArgs == {NilBytes}

Stats(t) == StatsLock(t) \/ StatsBody(t)

NextAtomic ==
    \E t \in Threads :
        \/ t = 1 /\ Batching(t, KeyArgs, BatchValueArgs)
        \/ t # 1 /\ Observers(t, KeyArgs)
        \/ t # 1 /\ Stats(t)
        \/ t # 1 /\ Constructing(t, UnboundedArgs)
        \/ t # 1 /\ ItrClose(t)

SpecAtomic == Init /\ [][NextAtomic]_vars

--------------------------------------------------------------------------
(* SpecSnap: the other threads build and walk iterators while thread 1    *)
(* single keys and commits batches                                        *)

SnapBatchKeyArgs == {B(<<1>>)}

NextSnap ==
    \E t \in Threads :
        \/ t = 1 /\ Mutators(t, KeyArgs, ValueArgs)
        \/ t = 1 /\ Batching(t, SnapBatchKeyArgs, BatchValueArgs)
        \/ t # 1 /\ Constructing(t, UnboundedArgs)
        \/ t # 1 /\ Traversing(t)

SpecSnap == Init /\ [][NextSnap]_vars

--------------------------------------------------------------------------
(* SpecSync: every thread writes single keys through the plain and the    *)
(* synchronous variants, and thread 1 commits batches through both        *)

NextSync ==
    \E t \in Threads :
        \/ Mutators(t, KeyArgs, ValueArgs)
        \/ SyncMutators(t, KeyArgs, ValueArgs)
        \/ t = 1 /\ Batching(t, SnapBatchKeyArgs, BatchValueArgs)
        \/ t = 1 /\ SyncCommitting(t)

SpecSync == Init /\ [][NextSync]_vars

--------------------------------------------------------------------------
(* SpecDomain: thread 1 writes single keys while the other threads build  *)
(* iterators with bounds that differ, walk them and ask for their domain  *)

DomainKeyArgs == {NilBytes}
DomainValueArgs == {B(<<1>>)}

NextDomain ==
    \E t \in Threads :
        \/ t = 1 /\ Mutators(t, DomainKeyArgs, DomainValueArgs)
        \/ t # 1 /\ Constructing(t, KeyArgs)
        \/ t # 1 /\ Traversing(t)
        \/ t # 1 /\ ItrDomain(t)

SpecDomain == Init /\ [][NextDomain]_vars

--------------------------------------------------------------------------
(* SpecClose: every thread closes the store at any time, while thread 1   *)
(* writes and commits batches and the other threads read and build        *)
(* iterators                                                              *)

NextClose ==
    \E t \in Threads :
        \/ Close(t)
        \/ t = 1 /\ Mutators(t, DomainKeyArgs, DomainValueArgs)
        \/ t = 1 /\ Batching(t, SnapBatchKeyArgs, BatchValueArgs)
        \/ t # 1 /\ Observers(t, DomainKeyArgs)
        \/ t # 1 /\ Constructing(t, UnboundedArgs)

SpecClose == Init /\ [][NextClose]_vars

--------------------------------------------------------------------------
(* SpecSerial: every thread writes single keys, and two threads commit    *)
(* batches                                                                *)

Committers == {t \in Threads : t <= 2}

NextSerial ==
    \E t \in Threads :
        \/ Mutators(t, DomainKeyArgs, DomainValueArgs)
        \/ t \in Committers /\ Batching(t, SnapBatchKeyArgs, BatchValueArgs)

SpecSerial == Init /\ [][NextSerial]_vars

--------------------------------------------------------------------------
(* SpecLock: every thread calls every operation that takes the lock       *)

NextLock ==
    \E t \in Threads :
        \/ Mutators(t, DomainKeyArgs, DomainValueArgs)
        \/ SyncMutators(t, DomainKeyArgs, DomainValueArgs)
        \/ Observers(t, DomainKeyArgs)
        \/ Stats(t)
        \/ NewBatchLock(t)
        \/ NewBatchBody(t)
        \/ Constructing(t, UnboundedArgs)

SpecLock == Init /\ [][NextLock]_vars

--------------------------------------------------------------------------
(* SpecLive: calls wait for the lock.  Thread 1 writes single keys and    *)
(* commits batches, the other threads read, and thread 2 also builds an   *)
(* iterator and walks it.  A thread that holds the lock goes on (weak     *)
(* fairness of the steps under the lock), and a thread waiting at Lock    *)
(* gets the lock (strong fairness: sync.Mutex hands the lock to a waiter  *)
(* that would starve).                                                    *)

Calling(t) ==
    \/ t = 1 /\ \E key \in DomainKeyArgs, value \in DomainValueArgs :
                   Call(t, "Set", [NoArg EXCEPT !.key = key, !.value = value])
    \/ t = 1 /\ \E key \in DomainKeyArgs :
                   Call(t, "Delete", [NoArg EXCEPT !.key = key])
    \/ t = 1 /\ ~batch[t].live /\ Call(t, "NewBatch", NoArg)
    \/ t = 1 /\ batch[t].live /\ Call(t, "Write", [NoArg EXCEPT !.i = 1])
    \/ t # 1 /\ \E key \in DomainKeyArgs :
                   Call(t, "Get", [NoArg EXCEPT !.key = key])
    \/ t # 1 /\ \E key \in DomainKeyArgs :
                   Call(t, "Has", [NoArg EXCEPT !.key = key])
    \/ t = 2 /\ itr[t].dbref = "nil"
              /\ Call(t, "Iterator", [NoArg EXCEPT !.key = NilBytes, !.value = NilBytes])
    \/ t = 2 /\ itr[t].live /\ Valid(itr[t])
              /\ Call(t, "Value", [NoArg EXCEPT !.key = KeyAt(itr[t])])

UnderLock(t) ==
    \/ SetBody(t)
    \/ DeleteBody(t)
    \/ NewBatchBody(t)
    \/ WriteApply(t)
    \/ WriteBody(t)
    \/ GetBody(t)
    \/ HasBody(t)
    \/ IteratorBody(t)
    \/ ValueBody(t)

Unlocked(t) ==
    \/ t = 1 /\ \E key \in DomainKeyArgs, value \in BatchValueArgs :
                   BatchSet(t, key, value)
    \/ t = 2 /\ ItrNext(t)
    \/ t = 2 /\ ItrClose(t)

NextLive == \E t \in Threads : Calling(t) \/ Acquire(t) \/ UnderLock(t) \/ Unlocked(t)

Fairness == \A t \in Threads : WF_vars(UnderLock(t)) /\ SF_vars(Acquire(t))

SpecLive == Init /\ [][NextLive]_vars /\ Fairness

--------------------------------------------------------------------------
(* SpecNil: the keys and values are the nil slice and the empty slice:    *)
(* thread 1 writes and commits batches, the other threads read            *)

NilKeyArgs == {NilBytes, B(<<>>)}
NilValueArgs == {NilBytes, B(<<>>)}
NilBatchValueArgs == {NilBytes}

NextNil ==
    \E t \in Threads :
        \/ t = 1 /\ Mutators(t, NilKeyArgs, NilValueArgs)
        \/ t = 1 /\ Batching(t, NilKeyArgs, NilBatchValueArgs)
        \/ t # 1 /\ Observers(t, NilKeyArgs)

SpecNil == Init /\ [][NextNil]_vars

--------------------------------------------------------------------------
(* SpecIter: one thread builds and walks iterators over every store on    *)
(* four keys, with every pair of bounds                                   *)

IterKeys == {<<>>, <<1>>, <<1, 2>>, <<2>>}
IterBoundArgs == {NilBytes} \cup {B(k) : k \in IterKeys}

InitIter == \E present \in SUBSET IterKeys : InitWith([k \in present |-> B(<<1>>)])

NextIter == Constructing(1, IterBoundArgs) \/ Traversing(1)

SpecIter == InitIter /\ [][NextIter]_vars

--------------------------------------------------------------------------
(* What the claims speak of *)

\* the key strings the claims range over
KeyStrings == {<<>>, <<1>>, <<1, 2>>, <<2>>}

Returns(t, op) == pc[t] = op /\ pc'[t] = "idle"

\* the entry of key string str is the same in stores m1 and m2
SameEntry(m1, m2, str) ==
    /\ MapHas(m1, str) <=> MapHas(m2, str)
    /\ MapLookup(m1, str) = MapLookup(m2, str)

RECURSIVE ApplyAll(_, _)
ApplyAll(m, ops) ==
    IF ops = <<>> THEN m ELSE ApplyAll(ApplyOp(m, Head(ops)), Tail(ops))

\* the index of the last operation of ops on key string str, 0 if there is none
LastOpOn(ops, str) ==
    LET on == {i \in 1..Len(ops) : KeyString(ops[i].key) = str}
    IN IF on = {} THEN 0 ELSE CHOOSE i \in on : \A j \in on : j <= i

--------------------------------------------------------------------------
(* C1 (as amended): once Set(k, v) has completed, and until a Delete or   *)
(* Set of k is applied directly or by a batch commit, Has(k) returns true *)
(* and Get(k) returns v, a nil v read back as the zero-length value; and  *)
(* Set(k, v) changes the entry of no other key.                           *)

\* the value Get is to return for a key set to value
C1_Expect(normalized, value) == IF normalized THEN nonNilBytes(value) ELSE value

C1_Step(normalized) ==
    /\ \A k \in KeyStrings :
         MutIn(lastMut', k).op = "set" =>
           /\ MemDBHas(db', ToBytes(k))
           /\ MemDBGet(db', ToBytes(k)) = C1_Expect(normalized, MutIn(lastMut', k).value)
    /\ \A t \in Threads :
         LET m == LastMutOf(KeyString(arg[t].key))
         IN /\ Returns(t, "Get") /\ m.op = "set" =>
                 ret' = RetBytes("Get", C1_Expect(normalized, m.value))
            /\ Returns(t, "Has") /\ m.op = "set" => ret' = RetBool("Has", TRUE)
            /\ Returns(t, "Set") =>
                 /\ MutIn(lastMut', KeyString(arg[t].key)) = MutSet(arg[t].value)
                 /\ \A k \in KeyStrings \ {KeyString(arg[t].key)} :
                      SameEntry(db, db', k)
    /\ \A k \in KeyStrings :
         ~SameEntry(db, db', k) =>
           \E t \in Threads :
              \/ pc[t] \in {"Set", "Delete"} /\ KeyString(arg[t].key) = k
              \/ /\ pc[t] = "Write"
                 /\ arg[t].i <= Len(batch[t].ops)
                 /\ KeyString(batch[t].ops[arg[t].i].key) = k

C1_SetThenGet == [][C1_Step(TRUE)]_vars

\* C1 as stated: Get(k) returns the v that was passed to Set
C1_GetReturnsArgument == [][C1_Step(FALSE)]_vars

\* Get has returned the zero-length value, and the one key present was set to nil
C1_Witness ==
    /\ ret = RetBytes("Get", B(<<>>))
    /\ \E k \in DOMAIN db :
         /\ DOMAIN db = {k}
         /\ LastMutOf(k) = MutSet(NilBytes)
    /\ \E k \in KeyStrings : LastMutOf(k).op = "delete"

--------------------------------------------------------------------------
(* C2: a key that was never set, or whose most recent applied mutation is *)
(* a Delete, is absent: Has returns false and Get the nil slice.  Delete  *)
(* of an absent key leaves the store as it is, Delete of a present key    *)
(* removes that key only.                                                 *)

C2_Absent(m, k) == ~MemDBHas(m, ToBytes(k)) /\ MemDBGet(m, ToBytes(k)) = NilBytes

C2_Step ==
    /\ \A k \in KeyStrings :
         MutIn(lastMut', k).op \in {"none", "delete"} => C2_Absent(db', k)
    /\ \A t \in Threads :
         LET k == KeyString(arg[t].key)
             gone == LastMutOf(k).op \in {"none", "delete"}
         IN /\ Returns(t, "Get") /\ gone => ret' = RetBytes("Get", NilBytes)
            /\ Returns(t, "Has") /\ gone => ret' = RetBool("Has", FALSE)
            /\ Returns(t, "Delete") =>
                 IF k \notin DOMAIN db THEN db' = db
                 ELSE /\ DOMAIN db' = DOMAIN db \ {k}
                      /\ \A j \in DOMAIN db' : db'[j] = db[j]

C2_AbsentUnlessSet ==
    /\ \A k \in KeyStrings : LastMutOf(k).op \in {"none", "delete"} => C2_Absent(db, k)
    /\ [][C2_Step]_vars

\* Has has returned false; one key was deleted after being set, one was never
\* set, and a third is still there
C2_Witness ==
    /\ ret = RetBool("Has", FALSE)
    /\ LastMutOf(<<1>>).op = "delete"
    /\ LastMutOf(<<>>).op = "set"
    /\ DOMAIN db = {<<>>}

--------------------------------------------------------------------------
(* C4: when Write has applied its last operation the store is the store   *)
(* Write found, with the pending operations applied one by one in append  *)
(* order: for each key the last operation on it decides, a key no         *)
(* operation names keeps its entry, and an empty batch changes nothing.   *)

C4_Committed(t) == pc[t] = "Write" /\ arg[t].i > Len(batch[t].ops)

C4_LastWins(before, ops, after) ==
    \A k \in KeyStrings :
        LET last == LastOpOn(ops, k)
        IN IF last = 0 THEN SameEntry(before, after, k)
           ELSE IF ops[last].opType = "set"
                THEN /\ MapHas(after, k)
                     /\ MapLookup(after, k) = nonNilBytes(ops[last].value)
                ELSE ~MapHas(after, k)

C4_WriteAppliesInOrder ==
    \A t \in Threads :
        C4_Committed(t) =>
            /\ db = ApplyAll(preStore[t], batch[t].ops)
            /\ C4_LastWins(preStore[t], batch[t].ops, db)
            /\ batch[t].ops = <<>> => db = preStore[t]

\* Put(a, 1), Delete(b), Put(a, nil) committed to a store that held a and b
C4_Witness ==
    \E t \in Threads :
        /\ C4_Committed(t)
        /\ batch[t].ops = <<OpSet(B(<<1>>), B(<<1>>)), OpDelete(NilBytes),
                            OpSet(B(<<1>>), NilBytes)>>
        /\ DOMAIN preStore[t] = {<<>>, <<1>>}
        /\ preStore[t][<<1>>] = B(<<1>>)
        /\ DOMAIN db = {<<1>>}
        /\ db[<<1>>] = B(<<>>)

--------------------------------------------------------------------------
(* C5: NewBatch, and Put and Delete on a batch that has not been written, *)
(* leave the store as it is.                                              *)

C5_BatchStep(t) ==
    \/ pc[t] = "idle" /\ pc'[t] = "NewBatch"
    \/ Returns(t, "NewBatch")
    \/ pc[t] = "idle" /\ pc'[t] = "idle" /\ batch'[t] # batch[t]

C5_PendingLeavesStore ==
    [][(\E t \in Threads : C5_BatchStep(t)) => db' = db /\ lastMut' = lastMut]_vars

\* a batch with a pending Put of a key the store does not hold, and a pending
\* Delete of a key it holds
C5_Witness ==
    \E t \in Threads :
        /\ pc[t] = "idle"
        /\ batch[t].live
        /\ \E i, j \in 1..Len(batch[t].ops) :
             /\ batch[t].ops[i].opType = "set"
             /\ ~MemDBHas(db, batch[t].ops[i].key)
             /\ batch[t].ops[j].opType = "delete"
             /\ MemDBHas(db, batch[t].ops[j].key)

--------------------------------------------------------------------------
(* C3: while a Write has applied a proper, non-empty part of its batch    *)
(* and the store is neither the store before the batch nor the store      *)
(* after it, no other thread is at a read of the map: every Get, Has,     *)
(* Stats and iterator construction reads the store before the whole batch *)
(* or after it.                                                           *)

Observing == {"Get", "Has", "Stats", "Iterator", "ReverseIterator", "Value"}

C3_Partial(w) ==
    /\ pc[w] = "Write"
    /\ db # preStore[w]
    /\ db # ApplyAll(preStore[w], batch[w].ops)

C3_NoPartialBatchObserved ==
    \A w \in Threads :
        C3_Partial(w) => \A u \in Threads \ {w} : pc[u] \notin Observing

\* a batch of several operations is half applied, after another thread has
\* observed the store
C3_Witness ==
    \E w \in Threads :
        /\ C3_Partial(w)
        /\ Len(batch[w].ops) >= 2
        /\ arg[w].i <= Len(batch[w].ops)
        /\ ret.op \in {"Get", "Has", "Stats"}
        /\ \E u \in Threads \ {w} : itr[u].dbref = "db"

--------------------------------------------------------------------------
(* C6: the snapshot of a forward iterator holds exactly the keys of the   *)
(* store at construction with start <= key < end (a nil bound is          *)
(* unbounded), each once, in strictly ascending byte-lexicographic order, *)
(* and the traversal yields them in that order.                           *)

\* a < b in byte-lexicographic order, stated without recursion
LexLess(a, b) ==
    \E i \in 1..Len(b) :
        /\ \A j \in 1..(i - 1) : j <= Len(a) /\ a[j] = b[j]
        /\ Len(a) = i - 1 \/ (Len(a) >= i /\ a[i] < b[i])

InRange(k, start, end) ==
    /\ start.isNil \/ start.bz = k \/ LexLess(start.bz, k)
    /\ end.isNil \/ LexLess(k, end.bz)

Elements(seq) == {seq[i] : i \in 1..Len(seq)}

Open(t) == itr[t].live /\ itr[t].dbref = "db"

C6_ForwardSnapshot ==
    \A t \in Threads :
        Open(t) /\ ~itr[t].reverse =>
            LET it == itr[t]
            IN /\ Elements(it.keys) = {k \in DOMAIN db : InRange(k, it.start, it.end)}
               /\ \A i, j \in 1..Len(it.keys) : i < j => LexLess(it.keys[i], it.keys[j])
               /\ it.cur <= Len(it.keys)
               /\ yielded[t] = [i \in 1..it.cur |-> ToBytes(it.keys[i])]

\* keys "", 1, 12, 2 and the range [1, 2): the traversal has ended and has
\* yielded 1, 12
C6_Witness ==
    \E t \in Threads :
        /\ Open(t) /\ ~itr[t].reverse
        /\ DOMAIN db = IterKeys
        /\ itr[t].start = B(<<1>>) /\ itr[t].end = B(<<2>>)
        /\ ~Valid(itr[t])
        /\ yielded[t] = <<B(<<1>>), B(<<1, 2>>)>>

--------------------------------------------------------------------------
(* C7: the snapshot of a reverse iterator holds the same set of keys as   *)
(* the forward iterator with the same bounds: the keys in [start, end).   *)
(* It is stated here for the bounds that are in order (start < end, or a  *)
(* nil bound), where the range is the one a caller means.                 *)

InOrder(start, end) == start.isNil \/ end.isNil \/ LexLess(start.bz, end.bz)

C7_ReverseSelectsSameKeys ==
    \A t \in Threads :
        Open(t) /\ itr[t].reverse /\ InOrder(itr[t].start, itr[t].end) =>
            Elements(itr[t].keys) =
                {k \in DOMAIN db : InRange(k, itr[t].start, itr[t].end)}

--------------------------------------------------------------------------
(* C8: the snapshot of a reverse iterator is the keys it selected in      *)
(* strictly descending order, each once (for bounds in order, as in C7).  *)

C8_ReverseDescendingOnce ==
    \A t \in Threads :
        Open(t) /\ itr[t].reverse /\ InOrder(itr[t].start, itr[t].end) =>
            LET it == itr[t]
                selected == {k \in DOMAIN db : InRange(k, it.end, it.start)}
            IN /\ Elements(it.keys) = selected
               /\ Len(it.keys) = Cardinality(selected)
               /\ \A i, j \in 1..Len(it.keys) : i < j => LexLess(it.keys[j], it.keys[i])

--------------------------------------------------------------------------
(* C9: from its construction to its Close the key sequence of an iterator *)
(* does not change, whatever is set, deleted or committed meanwhile, and  *)
(* the keys the traversal yields are that sequence, in order.             *)

C9_Step ==
    \A t \in Threads :
        /\ Open(t) /\ itr'[t].dbref = "db" => itr'[t].keys = itr[t].keys
        /\ itr'[t].dbref = "db" =>
             /\ itr'[t].cur <= Len(itr'[t].keys)
             /\ yielded'[t] = [i \in 1..itr'[t].cur |-> ToBytes(itr'[t].keys[i])]

C9_KeysFrozen == [][C9_Step]_vars

\* a traversal has ended having yielded a key that was deleted after the
\* construction, and never a key that was inserted after it
C9_Witness ==
    \E t \in Threads :
        /\ Open(t)
        /\ ~Valid(itr[t])
        /\ yielded[t] # <<>>
        /\ \E i \in 1..Len(yielded[t]) : ~MemDBHas(db, yielded[t][i])
        /\ \E k \in DOMAIN db :
             /\ InRange(k, itr[t].start, itr[t].end)
             /\ k \notin Elements(itr[t].keys)
             /\ ~itr[t].reverse

--------------------------------------------------------------------------
(* C10: Value returns what the store holds for the key at the cursor when *)
(* Value reads it: the value of the most recent Set of that key, or the   *)
(* nil slice when the key was deleted after the construction.             *)

C10_Step ==
    \A t \in Threads :
        Returns(t, "Value") =>
            LET k == itr[t].keys[itr[t].cur + 1]
                m == LastMutOf(k)
            IN /\ ret' = RetBytes("Value", MemDBGet(db, ToBytes(k)))
               /\ ret' = RetBytes("Value", IF m.op = "set" THEN nonNilBytes(m.value)
                                           ELSE NilBytes)

C10_ValueIsLive == [][C10_Step]_vars

\* Value has returned the nil slice for a key of the snapshot
C10_Witness ==
    \E t \in Threads :
        /\ Open(t) /\ Valid(itr[t]) /\ pc[t] = "idle"
        /\ LastMutOf(itr[t].keys[itr[t].cur + 1]).op = "delete"
        /\ ret = RetBytes("Value", NilBytes)

--------------------------------------------------------------------------
(* C11: while an iterator is not valid (its snapshot is empty, its cursor *)
(* is past the last key, or it has been closed) a call of Next, Key or    *)
(* Value fails the validity assertion and none of them returns a result;  *)
(* after Close this is so whatever the cursor and the snapshot were.      *)

Closed(t) == itr[t].live /\ itr[t].dbref = "nil"

C11_InvalidCallsFail ==
    \A t \in Threads :
        itr[t].live /\ pc[t] = "idle" /\ (~Valid(itr[t]) \/ Closed(t)) =>
            /\ ENABLED ItrPanic(t)
            /\ ~ENABLED ItrNext(t)
            /\ ~ENABLED ItrKey(t)
            /\ ~ENABLED ValueLock(t)

\* an iterator over four keys was closed with its cursor on the second key,
\* and a call on it has failed
C11_Witness ==
    \E t \in Threads :
        /\ Closed(t)
        /\ itr[t].cur = 1
        /\ itr[t].start = NilBytes /\ itr[t].end = NilBytes /\ ~itr[t].reverse
        /\ DOMAIN db = IterKeys
        /\ ret = RetPanic

--------------------------------------------------------------------------
(* C12: an iterator, forward or reverse, whose bounds are equal and       *)
(* non-nil, or whose range [start, end) holds no key of the store at its  *)
(* construction, has an empty snapshot and is not valid.  The ranges are  *)
(* those with bounds in order (start < end, or a nil bound), as in C7.    *)

C12_EmptyDomain(it, store) ==
    \/ ~it.start.isNil /\ ~it.end.isNil /\ it.start.bz = it.end.bz
    \/ /\ InOrder(it.start, it.end)
       /\ \A k \in DOMAIN store : ~InRange(k, it.start, it.end)

C12_EmptyRangeInvalid ==
    \A t \in Threads :
        Open(t) /\ C12_EmptyDomain(itr[t], db) =>
            itr[t].keys = <<>> /\ ~Valid(itr[t])

--------------------------------------------------------------------------
(* C13: SetSync takes the steps of Set, DeleteSync those of Delete and    *)
(* WriteSync those of Write: each takes the free lock and leaves the      *)
(* store alone, then makes the same change to the same store and frees    *)
(* the lock on return, for every key and value.                           *)

C13_Effect(isSet, m, a) ==
    IF isSet THEN SetNoLock(m, a.key, a.value) ELSE DeleteNoLock(m, a.key)

C13_Point(t, op, isSet) ==
    /\ pc[t] = "idle" /\ pc'[t] = op => mtx = Free /\ mtx' = t /\ db' = db
    /\ pc[t] = op => mtx = t
    /\ Returns(t, op) =>
         /\ db' = C13_Effect(isSet, db, arg[t])
         /\ mtx' = Free
         /\ ret'.kind = "void"

C13_Commit(t, op) ==
    /\ pc[t] = "idle" /\ pc'[t] = op => mtx = Free /\ mtx' = t /\ db' = db
    /\ pc[t] = op => mtx = t
    /\ pc[t] = op /\ pc'[t] = op =>
         /\ arg'[t].i = arg[t].i + 1
         /\ db' = ApplyOp(db, batch[t].ops[arg[t].i])
         /\ mtx' = t
    /\ Returns(t, op) =>
         /\ db' = db
         /\ db = ApplyAll(preStore[t], batch[t].ops)
         /\ mtx' = Free
         /\ ret'.kind = "void"
         /\ batch'[t] = NoBatch

C13_Step ==
    \A t \in Threads :
        /\ C13_Point(t, "Set", TRUE) /\ C13_Point(t, "SetSync", TRUE)
        /\ C13_Point(t, "Delete", FALSE) /\ C13_Point(t, "DeleteSync", FALSE)
        /\ C13_Commit(t, "Write") /\ C13_Commit(t, "WriteSync")

C13_SyncSameAsAsync == [][C13_Step]_vars

\* WriteSync has applied a batch of two operations or more that changed the
\* store that held a zero-length value, after a SetSync has returned and a
\* key was deleted
C13_Witness ==
    \E t \in Threads :
        /\ pc[t] = "WriteSync"
        /\ arg[t].i > Len(batch[t].ops)
        /\ Len(batch[t].ops) >= 2
        /\ db # preStore[t]
        /\ ret = RetSync("SetSync")
        /\ LastMutOf(<<>>) = MutDelete
        /\ <<1>> \in DOMAIN preStore[t] /\ preStore[t][<<1>>] = B(<<>>)

--------------------------------------------------------------------------
(* C14: Domain returns the start and the end that were passed to Iterator *)
(* or ReverseIterator, in that order: the constructor stores them as      *)
(* passed, no later step of any thread changes them while the iterator    *)
(* is kept, and Domain returns what is stored.                            *)

C14_Step ==
    /\ \A t \in Threads :
         /\ Returns(t, "Iterator") \/ Returns(t, "ReverseIterator") =>
              itr'[t].start = arg[t].key /\ itr'[t].end = arg[t].value
         /\ itr[t].live /\ pc[t] \notin {"Iterator", "ReverseIterator"} =>
              itr'[t].start = itr[t].start /\ itr'[t].end = itr[t].end
    /\ ret'.op = "Domain" /\ ret' # ret =>
         /\ itr' = itr
         /\ \E t \in Threads :
              /\ itr[t].live /\ pc[t] = "idle"
              /\ ret' = RetDomain(itr[t].start, itr[t].end)

C14_DomainAsPassed == [][C14_Step]_vars

\* a reverse iterator built with (1, nil) has moved its cursor, its key was
\* deleted meanwhile, and Domain has returned (1, nil)
C14_Witness ==
    \E t \in Threads :
        /\ Open(t) /\ itr[t].reverse
        /\ itr[t].start = B(<<1>>) /\ itr[t].end = NilBytes
        /\ itr[t].cur = 1
        /\ LastMutOf(<<>>) = MutDelete
        /\ ret = RetDomain(B(<<1>>), NilBytes)

--------------------------------------------------------------------------
(* C15: Close of the store changes nothing: no entry, not the lock, no    *)
(* batch and no iterator, so every operation after it finds the state it  *)
(* would have found without it.  Whatever is closed meanwhile, the store  *)
(* changes only under Set, Delete and Write, and Get and Has return what  *)
(* the writes applied so far determine.                                   *)

C15_AsWritten(m, hist) ==
    \A k \in KeyStrings :
        IF MutIn(hist, k).op = "set"
        THEN /\ MemDBHas(m, ToBytes(k))
             /\ MemDBGet(m, ToBytes(k)) = nonNilBytes(MutIn(hist, k).value)
        ELSE ~MemDBHas(m, ToBytes(k)) /\ MemDBGet(m, ToBytes(k)) = NilBytes

C15_Step ==
    /\ ret' = RetClose /\ ret # RetClose =>
         UNCHANGED <<db, mtx, pc, arg, batch, itr, lastMut, preStore, yielded>>
    /\ db' # db => \E t \in Threads : pc[t] \in {"Set", "Delete", "Write"}
    /\ C15_AsWritten(db', lastMut')
    /\ \A t \in Threads :
         /\ Returns(t, "Get") => ret' = RetBytes("Get", MemDBGet(db, arg[t].key))
         /\ Returns(t, "Has") => ret' = RetBool("Has", MemDBHas(db, arg[t].key))

C15_CloseIsNoOp == [][C15_Step]_vars

\* Close has returned while a Get holds the lock, the store holds an entry,
\* a batch has pending operations and an iterator is open
C15_Witness ==
    /\ ret = RetClose
    /\ db # EmptyMap
    /\ \E t \in Threads : pc[t] = "Get" /\ Open(t) /\ itr[t].keys # <<>>
    /\ \E t \in Threads : batch[t].live /\ batch[t].ops # <<>>

--------------------------------------------------------------------------
(* C16: Set, Delete and Write are indivisible units ordered by the lock.  *)
(* A unit starts from the store it found when it took the lock and ends   *)
(* with its whole effect on that store; while a Write is under way the    *)
(* store holds that Write's first operations on the store it found and no *)
(* other thread is inside a mutation; and the store changes in no other   *)
(* step.  So every store reached is the result of the units in the order  *)
(* they took the lock.                                                    *)

Mutating == {"Set", "Delete", "Write"}

C16_Applied(w) == SubSeq(batch[w].ops, 1, arg[w].i - 1)

C16_InUnit ==
    \A w \in Threads :
        /\ pc[w] \in Mutating =>
             /\ mtx = w
             /\ \A u \in Threads \ {w} : pc[u] \notin Mutating
        /\ pc[w] = "Write" => db = ApplyAll(preStore[w], C16_Applied(w))

C16_Step ==
    /\ db' # db => \E t \in Threads : pc[t] \in Mutating /\ mtx = t
    /\ \A t \in Threads :
         /\ pc[t] = "idle" /\ pc'[t] \in Mutating => mtx = Free /\ db' = db
         /\ pc[t] = "idle" /\ pc'[t] = "Write" => preStore'[t] = db
         /\ Returns(t, "Set") => db' = SetNoLock(db, arg[t].key, arg[t].value)
         /\ Returns(t, "Delete") => db' = DeleteNoLock(db, arg[t].key)
         /\ Returns(t, "Write") =>
              db' = ApplyAll(preStore[t], batch[t].ops) /\ mtx' = Free

C16_Serializable == C16_InUnit /\ [][C16_Step /\ C16_InUnit']_vars

\* a Write is half way through a batch of two operations or more while
\* another thread has a batch pending, after a key was deleted
C16_Witness ==
    \E w \in Threads :
        /\ pc[w] = "Write"
        /\ arg[w].i = 2
        /\ Len(batch[w].ops) >= 2
        /\ db # preStore[w]
        /\ db # ApplyAll(preStore[w], batch[w].ops)
        /\ \E u \in Threads \ {w} : batch[u].live /\ Len(batch[u].ops) >= 2
        /\ \E k \in KeyStrings : LastMutOf(k) = MutDelete

--------------------------------------------------------------------------
(* C17: at most one thread is inside an operation that takes the lock,    *)
(* and it holds the lock; Get, Has, Set, SetSync, Delete, DeleteSync,     *)
(* Stats, NewBatch, Iterator and ReverseIterator read and write the map   *)
(* only holding it and have released it when they return, so the lock is  *)
(* free whenever no operation is under way.                               *)

Locked == {"Get", "Has", "Set", "SetSync", "Delete", "DeleteSync", "Stats",
           "NewBatch", "Iterator", "ReverseIterator"}

C17_Held ==
    /\ mtx \in Threads \cup {Free}
    /\ Cardinality({t \in Threads : pc[t] # "idle"}) <= 1
    /\ \A t \in Threads : pc[t] # "idle" <=> mtx = t
    /\ (\A t \in Threads : pc[t] = "idle") <=> mtx = Free

C17_Step ==
    /\ \A t \in Threads :
         /\ pc[t] = "idle" /\ pc'[t] \in Locked =>
              /\ mtx = Free /\ mtx' = t
              /\ UNCHANGED <<db, ret, itr, batch>>
         /\ \A op \in Locked : Returns(t, op) => mtx = t /\ mtx' = Free
    /\ db' # db \/ itr' # itr \/ batch' # batch \/ ret'.kind \in {"bytes", "bool", "stats"} =>
         \/ \E t \in Threads : pc[t] \in Locked /\ mtx = t
         \/ itr' # itr /\ \E t \in Threads : Open(t) /\ ~Open(t)'
         \/ UNCHANGED <<db, itr, batch, ret>>

C17_LockDiscipline == C17_Held /\ [][C17_Step /\ C17_Held']_vars

\* the lock is free and no operation is under way, after Stats has counted
\* one entry, with a batch made and an iterator built by different threads
C17_Witness ==
    /\ mtx = Free
    /\ \A t \in Threads : pc[t] = "idle"
    /\ ret = RetStats("Stats", <<1>>)
    /\ \E t, u \in Threads : t # u /\ batch[t].live /\ Open(u) /\ itr[u].reverse
    /\ DOMAIN db = {<<>>}

--------------------------------------------------------------------------
(* C18: every call of Get, Has, Set, Delete, NewBatch, Write, Iterator    *)
(* and Value that has started, waiting for the lock or holding it,        *)
(* returns.                                                               *)

C18_EveryCallReturns ==
    \A t \in Threads : (pc[t] # "idle") ~> (pc[t] = "idle")

\* a Value call of a traversal waits for the lock while a Write is half way
\* through its batch
C18_Witness ==
    \E t, w \in Threads :
        /\ pc[t] = Waiting["Value"]
        /\ Open(t)
        /\ pc[w] = "Write" /\ mtx = w
        /\ arg[w].i = 2 /\ Len(batch[w].ops) >= 2

--------------------------------------------------------------------------
(* C19: the nil key and the zero-length key name the same entry in Get,   *)
(* Has, Set, Delete and the operations of a batch; a nil value is stored  *)
(* as the zero-length value, and no stored value is nil; so after         *)
(* Set(k, nil) Has(k) is true and Get(k) returns the zero-length value,   *)
(* which is not the nil slice returned for a missing key.                 *)

C19_SameKey(m, k1, k2) ==
    /\ MemDBGet(m, k1) = MemDBGet(m, k2)
    /\ MemDBHas(m, k1) = MemDBHas(m, k2)
    /\ DeleteNoLock(m, k1) = DeleteNoLock(m, k2)
    /\ ApplyOp(m, OpDelete(k1)) = ApplyOp(m, OpDelete(k2))
    /\ \A v \in NilValueArgs :
         /\ SetNoLock(m, k1, v) = SetNoLock(m, k2, v)
         /\ ApplyOp(m, OpSet(k1, v)) = ApplyOp(m, OpSet(k2, v))

C19_NilValue(m, k) ==
    /\ SetNoLock(m, k, NilBytes) = SetNoLock(m, k, B(<<>>))
    /\ MemDBHas(SetNoLock(m, k, NilBytes), k)
    /\ MemDBGet(SetNoLock(m, k, NilBytes), k) = B(<<>>)
    /\ MemDBGet(DeleteNoLock(m, k), k) = NilBytes
    /\ MemDBGet(SetNoLock(m, k, NilBytes), k) # MemDBGet(DeleteNoLock(m, k), k)

C19_Normalized ==
    /\ C19_SameKey(db, NilBytes, B(<<>>))
    /\ \A k \in NilKeyArgs : C19_NilValue(db, k)
    /\ \A str \in DOMAIN db : ~db[str].isNil

C19_Step ==
    \A t \in Threads :
        LET m == LastMutOf(<<>>)
        IN /\ Returns(t, "Get") =>
                ret' = RetBytes("Get", IF m.op = "set" THEN B(<<>>) ELSE NilBytes)
           /\ Returns(t, "Has") => ret' = RetBool("Has", m.op = "set")

C19_NilNormalization == C19_Normalized /\ [][C19_Step /\ C19_Normalized']_vars

\* a Get with the zero-length key holds the lock, the entry was last set to
\* nil, Has has returned true, and a batch has a pending Delete of the nil key
C19_Witness ==
    /\ \E t \in Threads : pc[t] = "Get" /\ arg[t].key = B(<<>>)
    /\ LastMutOf(<<>>) = MutSet(NilBytes)
    /\ ret = RetBool("Has", TRUE)
    /\ \E t \in Threads :
         \E i \in 1..Len(batch[t].ops) : batch[t].ops[i] = OpDelete(NilBytes)

--------------------------------------------------------------------------
(* C20: the cursor of an iterator that is not closed is between 0 and the *)
(* length of the snapshot, is 0 after the construction, and changes only  *)
(* in a Next on a valid iterator, which adds one and leaves the snapshot  *)
(* as it is.  The number of Next calls that succeeded is the cursor, so   *)
(* the distance to the end of the snapshot falls by one with each of      *)
(* them, and when Valid is false exactly len(snapshot) of them have been  *)
(* made, whatever was written to the store meanwhile.                     *)

C20_Remaining(it) == Len(it.keys) - it.cur

C20_InBounds ==
    \A t \in Threads :
        Open(t) =>
            /\ 0 <= itr[t].cur /\ itr[t].cur <= Len(itr[t].keys)
            /\ Len(yielded[t]) = itr[t].cur
            /\ C20_Remaining(itr[t]) >= 0
            /\ ~Valid(itr[t]) <=> Len(yielded[t]) = Len(itr[t].keys)

C20_Step ==
    \A t \in Threads :
        /\ Returns(t, "Iterator") \/ Returns(t, "ReverseIterator") =>
             itr'[t].cur = 0 /\ yielded'[t] = <<>>
        /\ Open(t) /\ itr'[t].dbref = "db" /\ itr'[t].cur # itr[t].cur =>
             /\ Valid(itr[t])
             /\ itr'[t].cur = itr[t].cur + 1
             /\ itr'[t].keys = itr[t].keys
             /\ C20_Remaining(itr'[t]) = C20_Remaining(itr[t]) - 1
             /\ db' = db
        /\ Open(t) /\ itr'[t].dbref = "db" => itr'[t].cur >= itr[t].cur

C20_CursorProgress == C20_InBounds /\ [][C20_Step /\ C20_InBounds']_vars

\* a traversal of two keys has ended after two Next calls, Valid has
\* returned false, and the first key was deleted from the store meanwhile
C20_Witness ==
    \E t \in Threads :
        /\ Open(t)
        /\ Len(itr[t].keys) = 2 /\ itr[t].cur = 2
        /\ Len(yielded[t]) = 2
        /\ ~MemDBHas(db, yielded[t][1])
        /\ ret = RetBool("Valid", FALSE)

====
